---- MODULE Spec2Model ----
(***************************************************************************)
(* FALCONN C++ wrapper (src/include/falconn/wrapper/cpp_wrapper_impl.h):   *)
(* parameter validation and dispatch in construct_table, hash-bit sizing   *)
(* in compute_number_of_hash_functions, the construction pipeline of       *)
(* construction_helper and the query facade LSHNNTableWrapper.             *)
(*                                                                         *)
(* The hash classes, the LSH table, its query object and the nearest       *)
(* neighbour query engine are included by the wrapper but live in other    *)
(* headers; the operators standing for them are marked as such where they  *)
(* are defined.                                                            *)
(***************************************************************************)
EXTENDS Integers, Sequences, FiniteSets, TLC

VARIABLES
  params,              \* the caller's LSHConstructionParameters record
  pointType,           \* template argument PointType: "dense" or "sparse"
  points,              \* the caller's point collection (std::vector<PointType>)
  phase,               \* "start", "built" (an index was returned) or "failed"
  last,                \* the last call: [op, err, q, ret]
  created,             \* objects allocated by construct_table, in order
  num_probes,          \* LSHNNTableWrapper::num_probes_
  max_num_candidates,  \* LSHNNTableWrapper::max_num_candidates_
  num_queries,         \* the query engine's cumulative "queries" counter
  sinceReset,          \* history: query calls since the last reset
  tpc,                 \* per caller: "idle", "called" (arguments evaluated)
  targs,               \* per caller: the arguments of the call in flight
  tres                 \* per caller: the value last returned

vars == <<params, pointType, points, phase, last, created, num_probes,
          max_num_candidates, num_queries, sinceReset, tpc, targs, tres>>

----------------------------------------------------------------------------
(* Bounds of the model *)

MaxDim == 2
MaxK == 1
MaxL == 2
MaxVal == 1
MaxBits == 3
MaxPoints == 2
MaxProbes == 2
MaxCand == 1
MaxQueries == 2
NumCallers == 2

(* this->kNoMaxNumCandidates, the "no limit" sentinel of the base class *)
kNoMaxNumCandidates == -1

----------------------------------------------------------------------------
(* Small helpers *)

RECURSIVE Pow2(_)
Pow2(n) == IF n <= 0 THEN 1 ELSE 2 * Pow2(n - 1)

RECURSIVE Log2Ceil(_)
Log2Ceil(n) == IF n <= 1 THEN 0 ELSE 1 + Log2Ceil((n + 1) \div 2)

NoError == "none"

(* what(): one identifier per throw site of LSHNNTableSetupError *)
SetupErrors ==
  { "dimension", "k", "l", "distance_function", "num_rotations",
    "last_cp_dimension", "lsh_family", "feature_hashing_dimension",
    "derive_dimension", "derive_feature_hashing_dimension",
    "derive_lsh_family" }

(* LSHNearestNeighborTableError thrown by set_num_probes *)
RuntimeErrors == { "num_probes" }

----------------------------------------------------------------------------
(* Hash-bit sizing: compute_number_of_hash_functions *)

(* core::cp_hash_helpers::compute_k_parameters_for_bits (polytope_hash.h):  *)
(* each full cross polytope of rotation dimension d yields log2ceil(d) + 1  *)
(* bits; as many full blocks as fit, then one partial block for the rest.   *)
compute_k_parameters_for_bits(rotation_dim, number_of_hash_bits) ==
  LET bits_per_cp == Log2Ceil(rotation_dim) + 1
      full == number_of_hash_bits \div bits_per_cp
      rest == number_of_hash_bits - full * bits_per_cp
  IN  IF rest > 0
        THEN [k |-> full + 1, last_cp_dimension |-> Pow2(rest - 1)]
        ELSE [k |-> full, last_cp_dimension |-> Pow2(Log2Ceil(rotation_dim))]

(* Mutant: the sparse rule sizes against (and checks) params->dimension.    *)
ComputeSparse_UsesDimension(number_of_hash_bits, p) ==
  IF p.lsh_family = "Hyperplane"
    THEN [err |-> NoError, params |-> [p EXCEPT !.k = number_of_hash_bits]]
  ELSE IF p.lsh_family = "CrossPolytope"
    THEN IF p.dimension <= 0
           THEN [err |-> "derive_feature_hashing_dimension", params |-> p]
           ELSE LET r == compute_k_parameters_for_bits(p.dimension,
                                                       number_of_hash_bits)
                IN  [err |-> NoError,
                     params |-> [p EXCEPT !.k = r.k,
                                   !.last_cp_dimension = r.last_cp_dimension]]
  ELSE [err |-> "derive_lsh_family", params |-> p]

(* ComputeNumberOfHashFunctions<DenseVector<...>>::compute *)
ComputeDense(number_of_hash_bits, p) ==
  IF p.lsh_family = "Hyperplane"
    THEN [err |-> NoError, params |-> [p EXCEPT !.k = number_of_hash_bits]]
  ELSE IF p.lsh_family = "CrossPolytope"
    THEN IF p.dimension <= 0
           THEN [err |-> "derive_dimension", params |-> p]
           ELSE LET r == compute_k_parameters_for_bits(p.dimension,
                                                       number_of_hash_bits)
                IN  [err |-> NoError,
                     params |-> [p EXCEPT !.k = r.k,
                                   !.last_cp_dimension = r.last_cp_dimension]]
  ELSE [err |-> "derive_lsh_family", params |-> p]

(* ComputeNumberOfHashFunctions<SparseVector<...>>::compute *)
ComputeSparse(number_of_hash_bits, p) ==
  IF p.lsh_family = "Hyperplane"
    THEN [err |-> NoError, params |-> [p EXCEPT !.k = number_of_hash_bits]]
  ELSE IF p.lsh_family = "CrossPolytope"
    THEN IF p.feature_hashing_dimension <= 0
           THEN [err |-> "derive_feature_hashing_dimension", params |-> p]
           ELSE LET r == compute_k_parameters_for_bits(
                           p.feature_hashing_dimension, number_of_hash_bits)
                IN  [err |-> NoError,
                     params |-> [p EXCEPT !.k = r.k,
                                   !.last_cp_dimension = r.last_cp_dimension]]
  ELSE [err |-> "derive_lsh_family", params |-> p]

(* falconn::compute_number_of_hash_functions<PointType> *)
compute_number_of_hash_functions(pt, number_of_hash_bits, p) ==
  IF pt = "dense" THEN ComputeDense(number_of_hash_bits, p)
                  ELSE ComputeSparse(number_of_hash_bits, p)

----------------------------------------------------------------------------
(* Hash family constructors *)

NoLsh == [ok |-> FALSE, family |-> "none", dim |-> 0, k |-> 0, l |-> 0]

(* core::HyperplaneHashDense / HyperplaneHashSparse (hyperplane_hash.h)     *)
HPHash(dim, k, l) ==
  [ok |-> TRUE, family |-> "Hyperplane", dim |-> dim, k |-> k, l |-> l]

(* core::CrossPolytopeHashDense (polytope_hash.h) *)
CPHashDense(dim, k, l, num_rotations, last_cp_dim) ==
  [ok |-> TRUE, family |-> "CrossPolytope", dim |-> dim, k |-> k, l |-> l]

(* core::CrossPolytopeHashSparse (polytope_hash.h): the class checks the    *)
(* feature hashing dimension itself (comment at construct_table).           *)
CPHashSparse(dim, k, l, num_rotations, feature_hashing_dim, last_cp_dim) ==
  IF feature_hashing_dim < 1
    THEN NoLsh
    ELSE [ok |-> TRUE, family |-> "CrossPolytope", dim |-> dim, k |-> k,
          l |-> l]

(* Mutant: the sparse traits pass params.dimension where the feature        *)
(* hashing dimension belongs.                                               *)
construct_cp_hash_sparse_PassesDimension(p) ==
  CPHashSparse(p.dimension, p.k, p.l, p.num_rotations, p.dimension,
               p.last_cp_dimension)

(* PointTypeTraitsInternal<DenseVector<...>>::construct_cp_hash *)
construct_cp_hash_dense(p) ==
  CPHashDense(p.dimension, p.k, p.l, p.num_rotations, p.last_cp_dimension)

(* PointTypeTraitsInternal<SparseVector<...>>::construct_cp_hash *)
construct_cp_hash_sparse(p) ==
  CPHashSparse(p.dimension, p.k, p.l, p.num_rotations,
               p.feature_hashing_dimension, p.last_cp_dimension)

(* LSH::get_l() *)
get_l(lsh) == lsh.l

----------------------------------------------------------------------------
(* Construction pipeline *)

PipelineObjects ==
  << "data_storage", "hash_table_factory", "composite_hash_table",
     "lsh_table", "query", "nn_query" >>

(* Mutant: the wrapper takes its default probe count from k. *)
WrapperInit_ProbesFromK(lsh) ==
  [num_probes |-> lsh.k, max_num_candidates |-> kNoMaxNumCandidates]

(* LSHNNTableWrapper::LSHNNTableWrapper and the member initialisers *)
WrapperInit(lsh) ==
  [num_probes |-> get_l(lsh), max_num_candidates |-> kNoMaxNumCandidates]

(* construction_helper: allocates the pipeline objects in this order, then  *)
(* the wrapper that takes ownership of them and of the hash function.       *)
construction_helper(pts, p, lsh) ==
  [status |-> "ok", err |-> NoError,
   created |-> <<"lsh">> \o PipelineObjects \o <<"wrapper">>,
   table_size |-> 2 * Len(pts),
   wrapper |-> WrapperInit(lsh)]

Failure(e) ==
  [status |-> "error", err |-> e, created |-> << >>, table_size |-> 0,
   wrapper |-> [num_probes |-> 0, max_num_candidates |-> 0]]

(* Mutant: k and l are validated in the opposite order. *)
Validate_LBeforeK(p) ==
  IF p.dimension < 1 THEN "dimension"
  ELSE IF p.l < 1 THEN "l"
  ELSE IF p.k < 1 THEN "k"
  ELSE IF p.distance_function # "NegativeInnerProduct"
    THEN "distance_function"
  ELSE NoError

(* construct_table, the checks common to both families *)
Validate(p) ==
  IF p.dimension < 1 THEN "dimension"
  ELSE IF p.k < 1 THEN "k"
  ELSE IF p.l < 1 THEN "l"
  ELSE IF p.distance_function # "NegativeInnerProduct"
    THEN "distance_function"
  ELSE NoError

(* Mutant: the cross polytope parameters are checked only after the         *)
(* pipeline has been assembled.                                             *)
CrossPolytopeBranch_ChecksLate(pt, pts, p) ==
  LET lsh == IF pt = "dense" THEN construct_cp_hash_dense(p)
                             ELSE construct_cp_hash_sparse(p)
      built == construction_helper(pts, p, [lsh EXCEPT !.ok = TRUE])
  IN  IF p.num_rotations < 0
        THEN [Failure("num_rotations") EXCEPT !.created = built.created]
      ELSE IF p.last_cp_dimension <= 0
        THEN [Failure("last_cp_dimension") EXCEPT !.created = built.created]
      ELSE IF ~lsh.ok
        THEN [Failure("feature_hashing_dimension")
                EXCEPT !.created = built.created]
      ELSE built

(* construct_table, the CrossPolytope branch *)
CrossPolytopeBranch(pt, pts, p) ==
  IF p.num_rotations < 0 THEN Failure("num_rotations")
  ELSE IF p.last_cp_dimension <= 0 THEN Failure("last_cp_dimension")
  ELSE LET lsh == IF pt = "dense" THEN construct_cp_hash_dense(p)
                                  ELSE construct_cp_hash_sparse(p)
       IN  IF ~lsh.ok THEN Failure("feature_hashing_dimension")
                      ELSE construction_helper(pts, p, lsh)

(* construct_table<PointType, KeyType, PointSet> *)
construct_table(pt, pts, p) ==
  IF Validate(p) # NoError THEN Failure(Validate(p))
  ELSE IF p.lsh_family = "Hyperplane"
    THEN construction_helper(pts, p, HPHash(p.dimension, p.k, p.l))
  ELSE IF p.lsh_family = "CrossPolytope"
    THEN CrossPolytopeBranch(pt, pts, p)
  ELSE Failure("lsh_family")

----------------------------------------------------------------------------
(* The query engine behind the facade: core::StaticLSHTable::Query          *)
(* (lsh_table.h) and core::NearestNeighborQuery (nn_query.h).  Points are   *)
(* sign vectors, repetition t hashes a vector to the sign of one of its     *)
(* coordinates, so every key sits in exactly one bucket of each of the l    *)
(* tables.                                                                  *)

Min(a, b) == IF a <= b THEN a ELSE b

Hash(t, v) == v[((t - 1) % Len(v)) + 1]

(* Multi-probe sequence: the l primary buckets first, then the other bucket *)
(* of each table.                                                           *)
ProbeSequence(l, q, probes) ==
  [i \in 1..Min(probes, 2 * l) |->
     IF i <= l THEN <<i, Hash(i, q)>> ELSE <<i - l, -Hash(i - l, q)>>]

(* Keys are positions in the point collection, counted from 0 *)
RECURSIVE Bucket(_, _, _, _)
Bucket(pts, t, b, n) ==
  IF n = 0 THEN << >>
  ELSE Bucket(pts, t, b, n - 1)
         \o (IF Hash(t, pts[n]) = b THEN <<n - 1>> ELSE << >>)

RECURSIVE Lookup(_, _, _)
Lookup(pts, probes, n) ==
  IF n = 0 THEN << >>
  ELSE Lookup(pts, probes, n - 1)
         \o Bucket(pts, probes[n][1], probes[n][2], Len(pts))

Truncate(seq, cap) ==
  IF cap < 0 \/ cap >= Len(seq) THEN seq ELSE SubSeq(seq, 1, cap)

RECURSIVE Dedup(_)
Dedup(seq) ==
  IF seq = << >> THEN << >>
  ELSE LET front == Dedup(SubSeq(seq, 1, Len(seq) - 1))
           x == seq[Len(seq)]
       IN  IF \E i \in 1..Len(front) : front[i] = x THEN front
           ELSE Append(front, x)

RECURSIVE InsertSorted(_, _)
InsertSorted(seq, x) ==
  IF seq = << >> THEN <<x>>
  ELSE IF x < seq[1] THEN <<x>> \o seq
  ELSE <<seq[1]>> \o InsertSorted(Tail(seq), x)

RECURSIVE Sort(_)
Sort(seq) ==
  IF seq = << >> THEN << >>
  ELSE InsertSorted(Sort(SubSeq(seq, 1, Len(seq) - 1)), seq[Len(seq)])

(* LSHTable::Query::get_candidates_with_duplicates *)
Query_get_candidates_with_duplicates(pts, l, q, probes, cap) ==
  LET seq == ProbeSequence(l, q, probes)
  IN  Truncate(Lookup(pts, seq, Len(seq)), cap)

(* LSHTable::Query::get_unique_candidates *)
Query_get_unique_candidates(pts, l, q, probes, cap) ==
  Dedup(Query_get_candidates_with_duplicates(pts, l, q, probes, cap))

(* LSHTable::Query::get_unique_sorted_candidates *)
Query_get_unique_sorted_candidates(pts, l, q, probes, cap) ==
  Sort(Query_get_unique_candidates(pts, l, q, probes, cap))

RECURSIVE InnerProduct(_, _, _)
InnerProduct(a, b, n) ==
  IF n = 0 THEN 0 ELSE InnerProduct(a, b, n - 1) + a[n] * b[n]

(* CosineDistance: the negative inner product *)
Distance(a, b) == 0 - InnerProduct(a, b, Min(Len(a), Len(b)))

(* Stable insertion of key x into keys ordered by distance to q *)
RECURSIVE InsertByDistance(_, _, _, _)
InsertByDistance(pts, q, seq, x) ==
  IF seq = << >> THEN <<x>>
  ELSE IF Distance(q, pts[x + 1]) < Distance(q, pts[seq[1] + 1])
    THEN <<x>> \o seq
  ELSE <<seq[1]>> \o InsertByDistance(pts, q, Tail(seq), x)

RECURSIVE Ranked(_, _, _)
Ranked(pts, q, seq) ==
  IF seq = << >> THEN << >>
  ELSE InsertByDistance(pts, q,
                        Ranked(pts, q, SubSeq(seq, 1, Len(seq) - 1)),
                        seq[Len(seq)])

(* NearestNeighborQuery::find_closest: <<key>>, or <<-1>> without candidates*)
NN_find_closest(pts, l, q, probes, cap) ==
  LET r == Ranked(pts, q, Query_get_unique_candidates(pts, l, q, probes, cap))
  IN  IF r = << >> THEN <<-1>> ELSE <<r[1]>>

(* NearestNeighborQuery::find_k_nearest_neighbors *)
NN_find_k_nearest_neighbors(pts, l, q, k, probes, cap) ==
  LET r == Ranked(pts, q, Query_get_unique_candidates(pts, l, q, probes, cap))
  IN  SubSeq(r, 1, Min(k, Len(r)))

(* NearestNeighborQuery::find_near_neighbors *)
NN_find_near_neighbors(pts, l, q, threshold, probes, cap) ==
  LET u == Query_get_unique_candidates(pts, l, q, probes, cap)
      Near(x) == Distance(q, pts[x + 1]) <= threshold
  IN  SelectSeq(u, Near)

(* The engine counts one query per call that fetches candidates *)
CountQuery(n) == n + 1

(* NearestNeighborQuery::reset_query_statistics *)
NN_reset_query_statistics == 0

(* NearestNeighborQuery::get_query_statistics *)
NN_get_query_statistics(n) == n

----------------------------------------------------------------------------
(* Inputs *)

Callers == 1..NumCallers

DistanceFunctions == { "NegativeInnerProduct", "Unknown" }
LSHFamilies == { "Hyperplane", "CrossPolytope", "Unknown" }
PointTypes == { "dense", "sparse" }

(* Parameter records as a caller may fill them in; -1 is a field left unset *)
ParamSpace ==
  [ dimension : (-1)..MaxDim,
    k : 0..MaxK,
    l : 0..MaxL,
    distance_function : DistanceFunctions,
    lsh_family : LSHFamilies,
    num_rotations : (-1)..MaxVal,
    last_cp_dimension : 0..MaxVal,
    feature_hashing_dimension : (-1)..MaxVal ]

(* Points are sign vectors; a point collection is a short sequence of them *)
Vectors(d) == [1..d -> {-1, 1}]

PointSets(d, n) == UNION { [1..m -> Vectors(d)] : m \in 0..n }

NoCall == [op |-> "none", err |-> NoError, q |-> << >>, ret |-> << >>]

NoArgs == [op |-> "none", q |-> << >>, x |-> 0, num_probes |-> 0,
           max_num_candidates |-> 0]

NoResult == [op |-> "none", q |-> << >>, x |-> 0, keys |-> << >>]

FacadeBlank ==
  /\ phase = "start"
  /\ last = NoCall
  /\ created = << >>
  /\ num_probes = 0
  /\ max_num_candidates = 0
  /\ num_queries = 0
  /\ sinceReset = 0
  /\ tpc = [t \in Callers |-> "idle"]
  /\ targs = [t \in Callers |-> NoArgs]
  /\ tres = [t \in Callers |-> NoResult]

----------------------------------------------------------------------------
(* Setup: parameter derivation and construction *)

InitSetup ==
  /\ params \in ParamSpace
  /\ pointType \in PointTypes
  /\ points \in PointSets(1, 1)
  /\ FacadeBlank

(* A caller sizes the hash functions for a bit budget before building *)
DeriveParameters ==
  /\ phase = "start"
  /\ \E bits \in 1..MaxBits :
       LET r == compute_number_of_hash_functions(pointType, bits, params)
       IN  /\ params' = r.params
           /\ last' = [NoCall EXCEPT
                         !.op = "compute_number_of_hash_functions",
                         !.err = r.err]
  /\ UNCHANGED <<pointType, points, phase, created, num_probes,
                 max_num_candidates, num_queries, sinceReset, tpc, targs,
                 tres>>

(* A caller builds the index *)
ConstructTable ==
  /\ phase = "start"
  /\ LET r == construct_table(pointType, points, params)
     IN  /\ phase' = IF r.status = "ok" THEN "built" ELSE "failed"
         /\ last' = [NoCall EXCEPT !.op = "construct_table", !.err = r.err]
         /\ created' = r.created
         /\ num_probes' = r.wrapper.num_probes
         /\ max_num_candidates' = r.wrapper.max_num_candidates
  /\ UNCHANGED <<params, pointType, points, num_queries, sinceReset, tpc,
                 targs, tres>>

NextSetup == DeriveParameters \/ ConstructTable

SpecSetup == InitSetup /\ [][NextSetup]_vars

----------------------------------------------------------------------------
(* The query facade LSHNNTableWrapper *)

(* Mutant: the new value is stored before it is checked. *)
set_num_probes_AssignsFirst(p) ==
  IF p <= 0 THEN [err |-> "num_probes", num_probes |-> p]
            ELSE [err |-> NoError, num_probes |-> p]

(* Mutant: the check lets 0 through. *)
set_num_probes_AllowsZero(p) ==
  IF p < 0 THEN [err |-> "num_probes", num_probes |-> num_probes]
           ELSE [err |-> NoError, num_probes |-> p]

(* LSHNNTableWrapper::set_num_probes *)
set_num_probes(p) ==
  IF p <= 0 THEN [err |-> "num_probes", num_probes |-> num_probes]
            ELSE [err |-> NoError, num_probes |-> p]

(* LSHNNTableWrapper::get_num_probes *)
get_num_probes == num_probes

(* LSHNNTableWrapper::set_max_num_candidates *)
set_max_num_candidates(c) == c

(* LSHNNTableWrapper::get_max_num_candidates *)
get_max_num_candidates == max_num_candidates

(* LSHNNTableWrapper::find_closest *)
find_closest(q, probes, cap) ==
  NN_find_closest(points, params.l, q, probes, cap)

(* LSHNNTableWrapper::find_k_nearest_neighbors *)
find_k_nearest_neighbors(q, k, probes, cap) ==
  NN_find_k_nearest_neighbors(points, params.l, q, k, probes, cap)

(* LSHNNTableWrapper::find_near_neighbors *)
find_near_neighbors(q, threshold, probes, cap) ==
  NN_find_near_neighbors(points, params.l, q, threshold, probes, cap)

(* LSHNNTableWrapper::get_candidates_with_duplicates *)
get_candidates_with_duplicates(q, probes, cap) ==
  Query_get_candidates_with_duplicates(points, params.l, q, probes, cap)

(* Mutant: the unique candidates are fetched with one probe more. *)
get_unique_candidates_ExtraProbe(q, probes, cap) ==
  Query_get_unique_candidates(points, params.l, q, probes + 1, cap)

(* LSHNNTableWrapper::get_unique_candidates *)
get_unique_candidates(q, probes, cap) ==
  Query_get_unique_candidates(points, params.l, q, probes, cap)

(* LSHNNTableWrapper::get_unique_sorted_candidates *)
get_unique_sorted_candidates(q, probes, cap) ==
  Query_get_unique_sorted_candidates(points, params.l, q, probes, cap)

(* The query methods by name; x is k or the threshold where there is one,   *)
(* probes and cap are the values of num_probes_ and max_num_candidates_     *)
(* the method read.                                                         *)
Answer(op, q, x, probes, cap) ==
  CASE op = "find_closest" -> find_closest(q, probes, cap)
    [] op = "find_k_nearest_neighbors" ->
         find_k_nearest_neighbors(q, x, probes, cap)
    [] op = "find_near_neighbors" -> find_near_neighbors(q, x, probes, cap)
    [] op = "get_candidates_with_duplicates" ->
         get_candidates_with_duplicates(q, probes, cap)
    [] op = "get_unique_candidates" -> get_unique_candidates(q, probes, cap)
    [] op = "get_unique_sorted_candidates" ->
         get_unique_sorted_candidates(q, probes, cap)

(* Mutant: find_k_nearest_neighbors parks k in max_num_candidates_. *)
KnobsAfterQuery_KNearestStoresK(op, x) ==
  IF op = "find_k_nearest_neighbors"
    THEN [num_probes |-> num_probes, max_num_candidates |-> x]
    ELSE [num_probes |-> num_probes,
          max_num_candidates |-> max_num_candidates]

(* The knobs after a query method: none of the six assigns a member. *)
KnobsAfterQuery(op, x) ==
  [num_probes |-> num_probes, max_num_candidates |-> max_num_candidates]

(* Mutant: reset_query_statistics forwards to the getter and resets nothing *)
reset_query_statistics_ResetsNothing == NN_get_query_statistics(num_queries)

(* LSHNNTableWrapper::reset_query_statistics *)
reset_query_statistics == NN_reset_query_statistics

(* LSHNNTableWrapper::get_query_statistics *)
get_query_statistics == NN_get_query_statistics(num_queries)

(* Query points: by the symmetry v -> -v of the hash and the distance, the  *)
(* vectors with a positive first coordinate                                *)
Queries == { q \in Vectors(2) : q[1] = 1 }

QueryOps ==
  { "find_closest", "find_k_nearest_neighbors", "find_near_neighbors",
    "get_candidates_with_duplicates", "get_unique_candidates",
    "get_unique_sorted_candidates" }

Built == phase = "built"

SetNumProbes(p) ==
  /\ Built
  /\ LET r == set_num_probes(p)
     IN  /\ num_probes' = r.num_probes
         /\ last' = [NoCall EXCEPT !.op = "set_num_probes", !.err = r.err]
  /\ UNCHANGED <<params, pointType, points, phase, created,
                 max_num_candidates, num_queries, sinceReset, tpc, targs,
                 tres>>

SetMaxNumCandidates(c) ==
  /\ Built
  /\ max_num_candidates' = set_max_num_candidates(c)
  /\ last' = [NoCall EXCEPT !.op = "set_max_num_candidates"]
  /\ UNCHANGED <<params, pointType, points, phase, created, num_probes,
                 num_queries, sinceReset, tpc, targs, tres>>

(* A query method called by a single caller: it reads the knobs, the engine *)
(* answers and counts the query.                                            *)
QueryCall(op, q, x) ==
  /\ Built
  /\ sinceReset < MaxQueries
  /\ num_probes' = KnobsAfterQuery(op, x).num_probes
  /\ max_num_candidates' = KnobsAfterQuery(op, x).max_num_candidates
  /\ num_queries' = CountQuery(num_queries)
  /\ sinceReset' = sinceReset + 1
  /\ last' = [op |-> op, err |-> NoError, q |-> q,
              ret |-> Answer(op, q, x, num_probes, max_num_candidates)]
  /\ UNCHANGED <<params, pointType, points, phase, created, tpc, targs,
                 tres>>

FindClosest == \E q \in Queries : QueryCall("find_closest", q, 0)

FindKNearestNeighbors ==
  \E q \in Queries, k \in 1..MaxPoints :
    QueryCall("find_k_nearest_neighbors", q, k)

FindNearNeighbors ==
  \E q \in Queries, threshold \in {-2, 0} :
    QueryCall("find_near_neighbors", q, threshold)

GetCandidatesWithDuplicates ==
  \E q \in Queries : QueryCall("get_candidates_with_duplicates", q, 0)

GetUniqueCandidates ==
  \E q \in Queries : QueryCall("get_unique_candidates", q, 0)

GetUniqueSortedCandidates ==
  \E q \in Queries : QueryCall("get_unique_sorted_candidates", q, 0)

ResetQueryStatistics ==
  /\ Built
  /\ num_queries' = reset_query_statistics
  /\ sinceReset' = 0
  /\ last' = [NoCall EXCEPT !.op = "reset_query_statistics"]
  /\ UNCHANGED <<params, pointType, points, phase, created, num_probes,
                 max_num_candidates, tpc, targs, tres>>

GetQueryStatistics ==
  /\ Built
  /\ last' = [NoCall EXCEPT !.op = "get_query_statistics",
                            !.ret = <<get_query_statistics>>]
  /\ UNCHANGED <<params, pointType, points, phase, created, num_probes,
                 max_num_candidates, num_queries, sinceReset, tpc, targs,
                 tres>>

(* Parameter records the facade's caller builds from: either family over   *)
(* dense points of dimension 2; l = 0 is a caller that forgot to set l.     *)
FacadeParams ==
  { p \in ParamSpace :
      /\ p.dimension = 2
      /\ p.k = 1
      /\ p.distance_function = "NegativeInnerProduct"
      /\ p.lsh_family \in {"Hyperplane", "CrossPolytope"}
      /\ p.num_rotations = 0
      /\ p.last_cp_dimension = 1
      /\ p.feature_hashing_dimension = -1 }

Init ==
  /\ params \in FacadeParams
  /\ pointType = "dense"
  /\ points \in PointSets(2, 1)
  /\ FacadeBlank

Next ==
  \/ ConstructTable
  \/ \E p \in (-1)..MaxProbes : SetNumProbes(p)
  \/ \E c \in (-1)..MaxCand : SetMaxNumCandidates(c)
  \/ FindClosest
  \/ FindKNearestNeighbors
  \/ FindNearNeighbors
  \/ GetCandidatesWithDuplicates
  \/ GetUniqueCandidates
  \/ GetUniqueSortedCandidates
  \/ ResetQueryStatistics
  \/ GetQueryStatistics

Spec == Init /\ [][Next]_vars

(* Candidate enumeration over every small point collection *)
InitCand ==
  /\ params \in FacadeParams
  /\ pointType = "dense"
  /\ points \in PointSets(2, MaxPoints)
  /\ FacadeBlank

NextCand ==
  \/ ConstructTable
  \/ \E p \in (-1)..MaxProbes : SetNumProbes(p)
  \/ \E c \in (-1)..MaxCand : SetMaxNumCandidates(c)
  \/ GetCandidatesWithDuplicates
  \/ GetUniqueCandidates
  \/ GetUniqueSortedCandidates

SpecCand == InitCand /\ [][NextCand]_vars

(* Several callers querying one built index, nobody touching the setters.   *)
(* A call evaluates its arguments (reading the knobs), then the engine      *)
(* answers and counts it.                                                   *)
InFlight == Cardinality({ t \in Callers : tpc[t] = "called" })

ConcQueries == { q \in Queries : \A i \in 1..Len(q) : q[i] = 1 }

CallQuery(t, op, q, x) ==
  /\ Built
  /\ tpc[t] = "idle"
  /\ sinceReset + InFlight < MaxQueries
  /\ tpc' = [tpc EXCEPT ![t] = "called"]
  /\ targs' = [targs EXCEPT ![t] =
                 [op |-> op, q |-> q, x |-> x, num_probes |-> num_probes,
                  max_num_candidates |-> max_num_candidates]]
  /\ tres' = [tres EXCEPT ![t] = NoResult]
  /\ num_probes' = KnobsAfterQuery(op, x).num_probes
  /\ max_num_candidates' = KnobsAfterQuery(op, x).max_num_candidates
  /\ UNCHANGED <<params, pointType, points, phase, last, created,
                 num_queries, sinceReset>>

AnswerQuery(t) ==
  /\ tpc[t] = "called"
  /\ tpc' = [tpc EXCEPT ![t] = "idle"]
  /\ tres' = [tres EXCEPT ![t] =
                [op |-> targs[t].op, q |-> targs[t].q, x |-> targs[t].x,
                 keys |-> Answer(targs[t].op, targs[t].q, targs[t].x,
                                 targs[t].num_probes,
                                 targs[t].max_num_candidates)]]
  /\ targs' = [targs EXCEPT ![t] = NoArgs]
  /\ num_queries' = CountQuery(num_queries)
  /\ sinceReset' = sinceReset + 1
  /\ UNCHANGED <<params, pointType, points, phase, last, created,
                 num_probes, max_num_candidates>>

InitConc ==
  /\ params \in FacadeParams
  /\ pointType = "dense"
  /\ points \in PointSets(2, 1)
  /\ FacadeBlank

NextConc ==
  \/ ConstructTable
  \/ \E t \in Callers, op \in QueryOps, q \in ConcQueries :
       CallQuery(t, op, q, 1)
  \/ \E t \in Callers : AnswerQuery(t)

SpecConc == InitConc /\ [][NextConc]_vars

----------------------------------------------------------------------------
(* Claims about setup *)

Constructed == last.op = "construct_table"

(* The documented precedence of the validator, as <<violated, error>> pairs *)
Precedence(p) ==
  << <<p.dimension < 1, "dimension">>,
     <<p.k < 1, "k">>,
     <<p.l < 1, "l">>,
     <<p.distance_function # "NegativeInnerProduct", "distance_function">>,
     <<p.lsh_family = "CrossPolytope" /\ p.num_rotations < 0,
       "num_rotations">>,
     <<p.lsh_family = "CrossPolytope" /\ p.last_cp_dimension < 1,
       "last_cp_dimension">> >>

Violated(p) == { i \in 1..Len(Precedence(p)) : Precedence(p)[i][1] }

FirstViolated(p) ==
  LET i == CHOOSE j \in Violated(p) : \A m \in Violated(p) : j <= m
  IN  Precedence(p)[i][2]

(* C1: construct_table on a record that violates one or more of the         *)
(* validator's conditions fails with the setup error of the first violated  *)
(* condition in the order dimension, k, l, distance_function, and for       *)
(* CrossPolytope num_rotations, last_cp_dimension; dimension = 0 fails      *)
(* with the dimension error whatever the other fields are.                  *)
C1_ErrorPrecedence ==
  Constructed =>
    /\ Violated(params) # {} =>
         /\ phase = "failed"
         /\ last.err = FirstViolated(params)
         /\ last.err \in SetupErrors
    /\ params.dimension = 0 => phase = "failed" /\ last.err = "dimension"

C1_Witness ==
  /\ Constructed
  /\ Cardinality(Violated(params)) >= 3
  /\ params.dimension >= 1
  /\ params.k < 1
  /\ params.l < 1
  /\ last.err = "k"

(* C2 as stated: dimension, k, l >= 1 and NegativeInnerProduct are enough   *)
(* for construct_table to succeed with num_probes = l and no candidate cap. *)
C2_Original ==
  ( /\ Constructed
    /\ params.dimension >= 1
    /\ params.k >= 1
    /\ params.l >= 1
    /\ params.distance_function = "NegativeInnerProduct" )
  => /\ phase = "built"
     /\ num_probes = params.l
     /\ max_num_candidates = kNoMaxNumCandidates

FamilyParametersValid(pt, p) ==
  \/ p.lsh_family = "Hyperplane"
  \/ /\ p.lsh_family = "CrossPolytope"
     /\ p.num_rotations >= 0
     /\ p.last_cp_dimension >= 1
     /\ pt = "sparse" => p.feature_hashing_dimension >= 1

(* C2 (amended): when dimension, k, l >= 1, the distance function is        *)
(* NegativeInnerProduct, the hash family is Hyperplane or CrossPolytope and *)
(* for CrossPolytope num_rotations >= 0, last_cp_dimension >= 1 and (sparse *)
(* points) feature_hashing_dimension >= 1, construct_table succeeds and the *)
(* index has num_probes = l and max_num_candidates = the unlimited sentinel.*)
C2_ValidConstructionSucceeds ==
  ( /\ Constructed
    /\ params.dimension >= 1
    /\ params.k >= 1
    /\ params.l >= 1
    /\ params.distance_function = "NegativeInnerProduct"
    /\ FamilyParametersValid(pointType, params) )
  => /\ phase = "built"
     /\ last.err = NoError
     /\ num_probes = params.l
     /\ max_num_candidates = kNoMaxNumCandidates

C2_Witness ==
  /\ Constructed
  /\ phase = "built"
  /\ params.lsh_family = "CrossPolytope"
  /\ params.k # params.l
  /\ num_probes = params.l

(* C4: with sparse points and the CrossPolytope family, construct_table     *)
(* fails with a setup error and returns no index when                       *)
(* feature_hashing_dimension is left unset.                                 *)
C4_SparseCrossPolytopeNeedsFeatureHashing ==
  ( /\ Constructed
    /\ pointType = "sparse"
    /\ params.lsh_family = "CrossPolytope"
    /\ params.feature_hashing_dimension = -1 )
  => /\ phase = "failed"
     /\ last.err \in SetupErrors
     /\ created = << >>

C4_Witness ==
  /\ Constructed
  /\ pointType = "sparse"
  /\ params.lsh_family = "CrossPolytope"
  /\ params.feature_hashing_dimension = -1
  /\ Violated(params) = {}
  /\ params.dimension >= 1
  /\ phase = "failed"
  /\ last.err = "feature_hashing_dimension"

Derived == last.op = "compute_number_of_hash_functions"

(* C5: with the CrossPolytope family, compute_number_of_hash_functions      *)
(* fails with a setup error exactly when the dimension it sizes against is  *)
(* unset: params.dimension for dense points, feature_hashing_dimension for  *)
(* sparse points; neither rule looks at the other field.                    *)
C5_DeriveNeedsItsDimension ==
  (Derived /\ params.lsh_family = "CrossPolytope") =>
    /\ pointType = "dense" =>
         IF params.dimension <= 0
           THEN last.err = "derive_dimension"
           ELSE last.err = NoError
    /\ pointType = "sparse" =>
         IF params.feature_hashing_dimension <= 0
           THEN last.err = "derive_feature_hashing_dimension"
           ELSE last.err = NoError
    /\ last.err # NoError => last.err \in SetupErrors

C5_Witness ==
  /\ Derived
  /\ params.lsh_family = "CrossPolytope"
  /\ pointType = "sparse"
  /\ params.dimension >= 1
  /\ params.feature_hashing_dimension = -1
  /\ last.err = "derive_feature_hashing_dimension"

ToSet(seq) == { seq[i] : i \in 1..Len(seq) }

(* C10: when construct_table raises a setup error, no index is returned and *)
(* none of the data storage, hash table factory, composite hash table, LSH  *)
(* table, query objects or wrapper has been created.                        *)
C10_SetupErrorsPrecedeAllocation ==
  (Constructed /\ last.err # NoError) =>
    /\ last.err \in SetupErrors
    /\ phase = "failed"
    /\ ToSet(created) \cap (ToSet(PipelineObjects) \cup {"wrapper"}) = {}

C10_Witness ==
  /\ Constructed
  /\ phase = "failed"
  /\ last.err = "last_cp_dimension"
  /\ created = << >>

----------------------------------------------------------------------------
(* Claims about the facade *)

(* C3: set_num_probes(p) with p < 1 fails with a runtime error and leaves   *)
(* num_probes and max_num_candidates as they were; with p >= 1 it succeeds  *)
(* and get_num_probes() then returns p.                                     *)
C3_SetNumProbes ==
  [][ \A p \in (-1)..(MaxProbes + 1) :
        SetNumProbes(p) =>
          IF p < 1
            THEN /\ last'.err \in RuntimeErrors
                 /\ num_probes' = num_probes
                 /\ max_num_candidates' = max_num_candidates
            ELSE /\ last'.err = NoError
                 /\ get_num_probes' = p ]_vars

C3_Witness ==
  /\ Built
  /\ last.op = "set_num_probes"
  /\ last.err = "num_probes"
  /\ get_num_probes # params.l
  /\ get_max_num_candidates # kNoMaxNumCandidates

(* C6: get_query_statistics reports as "queries" the number of query calls  *)
(* made since the last reset_query_statistics (0 right after a reset), each *)
(* of the six query methods adding exactly one.                             *)
C6_QueryStatistics ==
  Built =>
    /\ num_queries = sinceReset
    /\ last.op = "get_query_statistics" => last.ret = <<sinceReset>>
    /\ last.op = "reset_query_statistics" => get_query_statistics = 0

C6_Witness ==
  /\ Built
  /\ last.op = "get_query_statistics"
  /\ last.ret = <<2>>

StrictlyIncreasing(seq) ==
  \A i \in 1..(Len(seq) - 1) : seq[i] < seq[i + 1]

(* C7: with the knobs fixed, the keys get_unique_candidates(q) returns are  *)
(* among those of get_candidates_with_duplicates(q), and                    *)
(* get_unique_sorted_candidates(q) returns the keys of                      *)
(* get_unique_candidates(q) in increasing order, each once.                 *)
C7_CandidateSets ==
  Built =>
    /\ last.op = "get_unique_candidates" =>
         ToSet(last.ret) \subseteq
           ToSet(get_candidates_with_duplicates(last.q, num_probes,
                                                max_num_candidates))
    /\ last.op = "get_unique_sorted_candidates" =>
         LET u == get_unique_candidates(last.q, num_probes,
                                        max_num_candidates)
         IN  /\ ToSet(last.ret) = ToSet(u)
             /\ Len(last.ret) = Len(u)
             /\ StrictlyIncreasing(last.ret)

C7_Witness ==
  /\ Built
  /\ last.op = "get_unique_sorted_candidates"
  /\ last.ret # get_unique_candidates(last.q, num_probes, max_num_candidates)
  /\ Len(get_candidates_with_duplicates(last.q, num_probes,
                                        max_num_candidates))
       > Len(last.ret)

C9_NumProbesAtLeastOne ==
  /\ [](Built => num_probes >= 1)
  /\ []((Built /\ Constructed) => num_probes = params.l)
  /\ [][ (Built /\ num_probes' # num_probes) =>
           (last'.op = "set_num_probes" /\ last'.err = NoError) ]_vars

C9_Witness ==
  /\ Built
  /\ num_probes # params.l
  /\ num_probes >= 1
  /\ last.op \in QueryOps
  /\ sinceReset = 1
  /\ num_queries = 1

====
